---- MODULE Spec2Model ----
(***************************************************************************)
(* Model of static/script.js: the DOMContentLoaded handler that            *)
(*   (a) schedules the fade-out and removal of the ".flash" banners, and   *)
(*   (b) inserts the "Hide/Show completed tasks" toggle before the         *)
(*       ".task-list" container and wires its click handler.               *)
(*                                                                         *)
(* The document is a tree of elements.  kids[p] is the ordered sequence of *)
(* child elements of p, cls[n] the class list of n and style[n] the inline *)
(* style of n.  Element Root is document.documentElement; element Btn is   *)
(* the button the script creates.  Time is in milliseconds since the       *)
(* handler ran; a timer fires when the clock reaches its due time.         *)
(***************************************************************************)
EXTENDS Integers, Sequences, FiniteSets, TLC

\* ------------------------------------------------------------------ bounds
MaxNodes == 4
MaxClicks == 3
MaxTime == 5000
TickMs == 4000
MaxEnvOps == 1

\* ------------------------------------------------------- program constants
VisibleMs == 4000
RemoveDelayMs == 400

Null == 0 - 1
Btn == 0
Root == 1
Nodes == 1..MaxNodes
Elems == 0..MaxNodes

HideLabel == "Hide completed tasks"
ShowLabel == "Show completed tasks"
FadeTransition == "opacity 0.3s ease, transform 0.3s ease"
FadeOpacity == "0"
FadeTransform == "translateY(-4px)"
ToggleClass == "btn-ghost"
ToggleMargin == "12px"

FlashSelector == {"flash"}
TaskListSelector == {"task-list"}
CompletedSelector == {"task-card", "task-done"}

VARIABLES
  kids,       \* kids[p]: sequence of the child elements of p, in order
  cls,        \* cls[n]: the class list of element n
  style,      \* style[n]: the inline style of element n
  pc,         \* "parsed" before the DOMContentLoaded handler, "ran" after it
  flashes,    \* const flashes   (static NodeList, line 5)
  taskList,   \* const taskList  (line 22), Null when there is none
  completed,  \* const completed (static NodeList, line 24)
  toggle,     \* const toggle    (the created button's own properties)
  hidden,     \* let hidden      (line 34)
  timers,     \* pending setTimeout callbacks: [cb, due]
  now,        \* milliseconds since the handler ran
  error,      \* TRUE once a callback has thrown an uncaught exception
  clicks,     \* history: number of clicks delivered to the button
  fadedAt,    \* history: clock value when the fade callback ran
  removedAt,  \* history: clock value when the removal callback ran
  scheduled,  \* history: number of setTimeout calls made
  loadDoc,    \* history: the document as it was when the handler ran
  seen,       \* history: what the user sees of the toggle after 0, 1, ... clicks
  envOps      \* history: the mutations made by the rest of the page, each with
              \* the number of clicks delivered before it

vars == <<kids, cls, style, pc, flashes, taskList, completed, toggle, hidden,
          timers, now, error, clicks, fadedAt, removedAt, scheduled, loadDoc,
          seen, envOps>>

\* ------------------------------------------------------------ DOM helpers
Range(s) == {s[i] : i \in DOMAIN s}

Min(a, b) == IF a <= b THEN a ELSE b

NoStyle ==
  [display |-> "", opacity |-> "", transform |-> "", transition |-> "",
   marginBottom |-> ""]

NoToggle == [created |-> FALSE, textContent |-> "", type |-> ""]

\* Element.parentElement: the element whose child list holds n; null for the
\* root element and for a detached element.
ParentOf(k, n) ==
  IF \E p \in DOMAIN k : n \in Range(k[p])
    THEN CHOOSE p \in DOMAIN k : n \in Range(k[p])
    ELSE Null

RECURSIVE AncestorsOrSelf(_, _)
AncestorsOrSelf(k, n) ==
  IF n = Null THEN {} ELSE {n} \cup AncestorsOrSelf(k, ParentOf(k, n))

\* n is connected to the document.
InDoc(k, n) == Root \in AncestorsOrSelf(k, n)

\* The elements of the subtrees rooted at the siblings s, in document order.
RECURSIVE PreorderSeq(_, _)
PreorderSeq(k, s) ==
  IF s = <<>> THEN <<>>
  ELSE <<Head(s)>> \o PreorderSeq(k, k[Head(s)]) \o PreorderSeq(k, Tail(s))

RECURSIVE Matching(_, _, _)
Matching(s, c, sel) ==
  IF s = <<>> THEN <<>>
  ELSE (IF sel \subseteq c[Head(s)] THEN <<Head(s)>> ELSE <<>>)
         \o Matching(Tail(s), c, sel)

\* document.querySelectorAll(sel): every element of the document, the root
\* element included, in document order.
DocQuerySelectorAll(k, c, sel) == Matching(PreorderSeq(k, <<Root>>), c, sel)

\* document.querySelector(sel): the first match, or null.
DocQuerySelector(k, c, sel) ==
  LET m == DocQuerySelectorAll(k, c, sel)
  IN IF m = <<>> THEN Null ELSE Head(m)

\* element.querySelectorAll(sel): the descendants of the element only.
ElemQuerySelectorAll(k, c, e, sel) == Matching(PreorderSeq(k, k[e]), c, sel)

RECURSIVE InsertBefore(_, _, _)
InsertBefore(s, new, ref) ==
  IF s = <<>> THEN <<new>>
  ELSE IF Head(s) = ref THEN <<new>> \o s
  ELSE <<Head(s)>> \o InsertBefore(Tail(s), new, ref)

RECURSIVE Without(_, _)
Without(s, gone) ==
  IF s = <<>> THEN <<>>
  ELSE (IF Head(s) \in gone THEN <<>> ELSE <<Head(s)>>) \o Without(Tail(s), gone)

\* ----------------------------------------------------- load-time documents
\* An element as the template renders it: its class list and inline display.
Kinds ==
  { [cls |-> {},                         display |-> ""],
    [cls |-> {"flash"},                  display |-> ""],
    [cls |-> {"task-list"},              display |-> ""],
    [cls |-> {"task-card"},              display |-> ""],
    [cls |-> {"task-card", "task-done"}, display |-> ""],
    [cls |-> {"task-card", "task-done"}, display |-> "block"] }

RootKinds == {d \in Kinds : d.cls \in {{}, {"task-list"}} }

\* Ordered trees on 1..n, numbered in document order: par[m] is the parent of
\* m, an element on the path from m-1 up to the root.
RECURSIVE PathToRoot(_, _)
PathToRoot(par, m) ==
  IF m = Null THEN {} ELSE {m} \cup PathToRoot(par, par[m])

RECURSIVE Shapes(_)
Shapes(n) ==
  IF n = 1 THEN {<<Null>>}
  ELSE {Append(par, p) : <<par, p>> \in
          {q \in Shapes(n - 1) \X (1..(n - 1)) : q[2] \in PathToRoot(q[1], n - 1)}}

RECURSIVE SortedSeq(_)
SortedSeq(S) ==
  IF S = {} THEN <<>>
  ELSE LET m == CHOOSE x \in S : \A y \in S : x <= y
       IN <<m>> \o SortedSeq(S \ {m})

KidsOf(par) ==
  [p \in Elems |-> SortedSeq({m \in DOMAIN par : par[m] = p})]

Init ==
  \E n \in 1..MaxNodes :
    \E par \in Shapes(n) :
      \E kd \in [1..n -> Kinds] :
        /\ kd[Root] \in RootKinds
        /\ kids = KidsOf(par)
        /\ cls = [e \in Elems |-> IF e \in 1..n THEN kd[e].cls ELSE {}]
        /\ style = [e \in Elems |->
                      IF e \in 1..n THEN [NoStyle EXCEPT !.display = kd[e].display]
                      ELSE NoStyle]
        /\ loadDoc = [nodes |-> 1..n, kids |-> kids, cls |-> cls, style |-> style]
  /\ pc = "parsed"
  /\ flashes = <<>>
  /\ taskList = Null
  /\ completed = <<>>
  /\ toggle = NoToggle
  /\ hidden = FALSE
  /\ timers = {}
  /\ now = 0
  /\ error = FALSE
  /\ clicks = 0
  /\ fadedAt = Null
  /\ removedAt = Null
  /\ scheduled = 0
  /\ seen = <<>>
  /\ envOps = <<>>

\* What the user sees of the toggle: the inline display of each captured
\* card and the button's label.
Visible(st, comp, tg) ==
  [display |-> [i \in DOMAIN comp |-> st[comp[i]].display],
   label |-> tg.textContent]

\* -------------------------------------------------- the handler (1 - 48)
\* setTimeout(cb, delay)
SetTimeout(ts, cb, delay) == ts \cup {[cb |-> cb, due |-> now + delay]}

\* (variant: the length guard is missing)
ScheduleFade_Unguarded(fl) == SetTimeout({}, "fade", VisibleMs)

\* if (flashes.length) { setTimeout(fade, 4000) }
ScheduleFade(fl) == IF Len(fl) > 0 THEN SetTimeout({}, "fade", VisibleMs) ELSE {}

\* if (taskList) { completed = taskList.querySelectorAll(...) }
QueryCompleted(k, c, tl) ==
  IF tl = Null THEN <<>> ELSE ElemQuerySelectorAll(k, c, tl, CompletedSelector)

\* if (completed.length) { ... }: the button is created
CreatesToggle(tl, comp) == tl # Null /\ Len(comp) > 0

\* container.insertBefore(toggle, taskList)
InsertToggle(k, container, tl) ==
  [k EXCEPT ![container] = InsertBefore(@, Btn, tl)]

Load ==
  /\ pc = "parsed"
  /\ LET fl        == DocQuerySelectorAll(kids, cls, FlashSelector)
         tl        == DocQuerySelector(kids, cls, TaskListSelector)
         comp      == QueryCompleted(kids, cls, tl)
         creates   == CreatesToggle(tl, comp)
         container == IF tl = Null THEN Null ELSE ParentOf(kids, tl)
     IN /\ flashes' = fl
        /\ timers' = ScheduleFade(fl)
        /\ scheduled' = Cardinality(ScheduleFade(fl))
        /\ taskList' = tl
        /\ completed' = comp
        /\ toggle' = IF creates
                       THEN [created |-> TRUE, textContent |-> HideLabel,
                             type |-> "button"]
                       ELSE toggle
        /\ cls' = IF creates THEN [cls EXCEPT ![Btn] = {ToggleClass}] ELSE cls
        /\ style' = IF creates
                      THEN [style EXCEPT ![Btn].marginBottom = ToggleMargin]
                      ELSE style
        \* container is null when the task list is the root element:
        \* null.insertBefore throws a TypeError
        /\ error' = (creates /\ container = Null)
        /\ kids' = IF creates /\ container # Null
                     THEN InsertToggle(kids, container, tl)
                     ELSE kids
  /\ hidden' = FALSE
  /\ pc' = "ran"
  /\ seen' = <<Visible(style', completed', toggle')>>
  /\ UNCHANGED <<now, clicks, fadedAt, removedAt, loadDoc, envOps>>

\* ------------------------------------------------ click handler (35 - 43)
\* (variant: the completed cards are looked up again on every click)
ClickCards_Requery(k, c, tl, comp) == QueryCompleted(k, c, tl)

\* (variant: the click also walks the banners still in the document)
ClickCards_WithFlashes(k, c, tl, comp) ==
  comp \o DocQuerySelectorAll(k, c, FlashSelector)

\* (variant: every card of the list is walked, completed or not)
ClickCards_AllCards(k, c, tl, comp) == ElemQuerySelectorAll(k, c, tl, {"task-card"})

\* the cards the handler walks: the NodeList captured at load
ClickCards(k, c, tl, comp) == comp

\* (variant: showing leaves the inline display as it is)
ClickDisplay_NotCleared(h, old) == IF h THEN "none" ELSE old

\* card.style.display = hidden ? "none" : ""
ClickDisplay(h, old) == IF h THEN "none" ELSE ""

\* toggle.textContent = hidden ? "Show completed tasks" : "Hide completed tasks"
ClickLabel(h) == IF h THEN ShowLabel ELSE HideLabel

ClickStyle(st, cards, h) ==
  [e \in Elems |->
     IF e \in Range(cards)
       THEN [st[e] EXCEPT !.display = ClickDisplay(h, st[e].display)]
       ELSE st[e]]

Click ==
  /\ pc = "ran"
  /\ toggle.created
  /\ InDoc(kids, Btn)
  /\ clicks < MaxClicks
  /\ hidden' = ~hidden
  /\ style' = ClickStyle(style, ClickCards(kids, cls, taskList, completed), hidden')
  /\ toggle' = [toggle EXCEPT !.textContent = ClickLabel(hidden')]
  /\ clicks' = clicks + 1
  /\ seen' = Append(seen, Visible(style', completed, toggle'))
  /\ UNCHANGED <<kids, cls, pc, flashes, taskList, completed, timers, now, error,
                 fadedAt, removedAt, scheduled, loadDoc, envOps>>

\* ------------------------------------------------- timer callbacks (7 - 16)
FadeStyle(st, fl) ==
  [e \in Elems |->
     IF e \in Range(fl)
       THEN [st[e] EXCEPT !.transition = FadeTransition,
                          !.opacity = FadeOpacity,
                          !.transform = FadeTransform]
       ELSE st[e]]

\* (variant: the removal is scheduled at the end of the 300 ms transition)
AfterFade_AtTransitionEnd(ts, t) == SetTimeout(ts \ {t}, "remove", 300)

\* (variant: the fade was started with setInterval and stays pending)
AfterFade_Interval(ts, t) == SetTimeout(ts, "remove", RemoveDelayMs)

\* (variant: the removal is not scheduled)
AfterFade_NoRemoval(ts, t) == ts \ {t}

\* the timers pending after the fade callback: it schedules the removal
AfterFade(ts, t) == SetTimeout(ts \ {t}, "remove", RemoveDelayMs)

FadeTimer ==
  \E t \in timers :
    /\ t.cb = "fade"
    /\ t.due <= now
    /\ style' = FadeStyle(style, flashes)
    /\ timers' = AfterFade(timers, t)
    /\ scheduled' = scheduled + Cardinality(AfterFade(timers, t) \ timers)
    /\ fadedAt' = now
    /\ UNCHANGED <<kids, cls, pc, flashes, taskList, completed, toggle, hidden,
                   now, error, clicks, removedAt, loadDoc, seen, envOps>>

\* flashes.forEach((f) => f.remove()): each is taken out of its parent
RemoveAll(k, fl) == [p \in Elems |-> Without(k[p], Range(fl))]

RemoveTimer ==
  \E t \in timers :
    /\ t.cb = "remove"
    /\ t.due <= now
    /\ kids' = RemoveAll(kids, flashes)
    /\ timers' = timers \ {t}
    /\ removedAt' = now
    /\ UNCHANGED <<cls, style, pc, flashes, taskList, completed, toggle, hidden,
                   now, error, clicks, fadedAt, scheduled, loadDoc, seen, envOps>>

\* ------------------------------------------------------------- the clock
\* The clock advances to the next instant of interest, never past a timer
\* that is due.
NextDue(ts) ==
  IF ts = {} THEN MaxTime
  ELSE (CHOOSE t \in ts : \A u \in ts : t.due <= u.due).due

Tick ==
  /\ pc = "ran"
  /\ now < MaxTime
  /\ \A t \in timers : t.due > now
  /\ now' = Min(Min(now + TickMs, NextDue(timers)), MaxTime)
  /\ UNCHANGED <<kids, cls, style, pc, flashes, taskList, completed, toggle,
                 hidden, timers, error, clicks, fadedAt, removedAt, scheduled,
                 loadDoc, seen, envOps>>

Next == Load \/ Click \/ FadeTimer \/ RemoveTimer \/ Tick

Spec == Init /\ [][Next]_vars

\* The event loop keeps running: time passes and a timer that is due fires.
FairSpec ==
  Spec /\ WF_vars(Tick \/ FadeTimer \/ RemoveTimer)

\* --------------------------------------------- the rest of the page (env)
\* After load, other code of the page may add elements or change the
\* "task-done" flag of a card.  The script does not observe these changes.
LoadNodes == loadDoc.nodes

Fresh(n) == n \in Nodes /\ n \notin LoadNodes /\ cls[n] = {}

AddedClasses == {{"flash"}, {"task-card"}, {"task-card", "task-done"}}

EnvAddElement ==
  /\ pc = "ran"
  /\ Len(envOps) < MaxEnvOps
  /\ \E n \in Nodes, p \in Nodes, c \in AddedClasses :
       /\ Fresh(n)
       /\ \A m \in Nodes : Fresh(m) => n <= m
       /\ InDoc(kids, p)
       /\ kids' = [kids EXCEPT ![p] = Append(@, n)]
       /\ cls' = [cls EXCEPT ![n] = c]
       /\ envOps' = Append(envOps, [op |-> "add", elem |-> n, clicks |-> clicks])
  /\ UNCHANGED <<style, pc, flashes, taskList, completed, toggle, hidden, timers,
                 now, error, clicks, fadedAt, removedAt, scheduled, loadDoc, seen>>

EnvSetDone ==
  /\ pc = "ran"
  /\ Len(envOps) < MaxEnvOps
  /\ \E n \in Nodes :
       /\ "task-card" \in cls[n]
       /\ "task-done" \notin cls[n]
       /\ cls' = [cls EXCEPT ![n] = @ \cup {"task-done"}]
       /\ envOps' = Append(envOps, [op |-> "done", elem |-> n, clicks |-> clicks])
  /\ UNCHANGED <<kids, style, pc, flashes, taskList, completed, toggle, hidden,
                 timers, now, error, clicks, fadedAt, removedAt, scheduled,
                 loadDoc, seen>>

EnvClearDone ==
  /\ pc = "ran"
  /\ Len(envOps) < MaxEnvOps
  /\ \E n \in Nodes :
       /\ "task-done" \in cls[n]
       /\ cls' = [cls EXCEPT ![n] = @ \ {"task-done"}]
       /\ envOps' = Append(envOps, [op |-> "undone", elem |-> n, clicks |-> clicks])
  /\ UNCHANGED <<kids, style, pc, flashes, taskList, completed, toggle, hidden,
                 timers, now, error, clicks, fadedAt, removedAt, scheduled,
                 loadDoc, seen>>

NextEnv == Next \/ EnvAddElement \/ EnvSetDone \/ EnvClearDone

\* The page as the templates render it: banners anywhere, at most one
\* task-list container, the task cards directly inside it, no inline display.
ExpectedDocument ==
  /\ loadDoc.cls[Root] = {}
  /\ Cardinality({n \in LoadNodes : "task-list" \in loadDoc.cls[n]}) <= 1
  /\ \A n \in LoadNodes :
       /\ loadDoc.style[n].display = ""
       /\ "task-card" \in loadDoc.cls[n] =>
            /\ ParentOf(loadDoc.kids, n) # Null
            /\ "task-list" \in loadDoc.cls[ParentOf(loadDoc.kids, n)]

InitEnv == Init /\ ExpectedDocument

SpecEnv == InitEnv /\ [][NextEnv]_vars

\* =================================================================== claims
\* Facts about the document as it was at load, read from the history.
LoadFlashSet == {n \in LoadNodes : "flash" \in loadDoc.cls[n]}

LoadLists == {n \in LoadNodes : "task-list" \in loadDoc.cls[n]}

\* the first task-list container in document order (elements are numbered in
\* document order at load), Null when there is none
LoadList ==
  IF LoadLists = {} THEN Null
  ELSE CHOOSE n \in LoadLists : \A m \in LoadLists : n <= m

\* the completed task cards inside that container
LoadCompletedSet ==
  {n \in LoadNodes :
     /\ {"task-card", "task-done"} \subseteq loadDoc.cls[n]
     /\ LoadList # Null
     /\ n # LoadList
     /\ LoadList \in AncestorsOrSelf(loadDoc.kids, n)}

\* the task cards of the document that were not completed at load
LoadOpenCards ==
  {n \in LoadNodes :
     "task-card" \in loadDoc.cls[n] /\ "task-done" \notin loadDoc.cls[n]}

Odd(n) == n % 2 = 1

ImmediatelyBefore(s, a, b) ==
  \E i \in 1..(Len(s) - 1) : s[i] = a /\ s[i + 1] = b

\* how many times e occurs as a child anywhere
Occurrences(k, e) ==
  Cardinality({<<p, i>> \in Elems \X (1..(MaxNodes + 1)) :
                 i \in DOMAIN k[p] /\ k[p][i] = e})

\* ----------------------------------------------------------------------- C1
\* C1: after the handler has run, and in every later state, the toggle button
\* is in the document if and only if the task list held at least one completed
\* card at load.
C1_ToggleIffCompletedAtLoad ==
  pc = "ran" => (InDoc(kids, Btn) <=> LoadCompletedSet # {})

\* ----------------------------------------------------------------------- C2
\* C2 as stated: with M >= 1 completed cards, after n clicks every card is
\* "none" and the label is "Show completed tasks" when n is odd, and every
\* card has its display cleared and the label is "Hide completed tasks" when
\* n is even (n = 0 included).  Stated for the pages where the button made it
\* into the document.
C2_Original ==
  (pc = "ran" /\ LoadCompletedSet # {} /\ InDoc(kids, Btn)) =>
     IF Odd(clicks)
       THEN /\ \A c \in LoadCompletedSet : style[c].display = "none"
            /\ toggle.textContent = ShowLabel
       ELSE /\ \A c \in LoadCompletedSet : style[c].display = ""
            /\ toggle.textContent = HideLabel

\* C2 amended: the toggle starts shown with label "Hide completed tasks" and
\* every card still carrying the inline display it had at load; after n >= 1
\* clicks all M cards are "none" with label "Show completed tasks" when n is
\* odd and all M cards are cleared with label "Hide completed tasks" when n
\* is even.  The cards are never split and the label is never out of step.
C2_TwoStateToggle ==
  LET done == LoadCompletedSet
  IN (pc = "ran" /\ done # {}) =>
       /\ Range(completed) = done
       /\ toggle.created
       /\ hidden = Odd(clicks)
       /\ toggle.textContent = (IF Odd(clicks) THEN ShowLabel ELSE HideLabel)
       /\ \A c \in done :
            style[c].display =
              (IF clicks = 0 THEN loadDoc.style[c].display
               ELSE IF Odd(clicks) THEN "none" ELSE "")

\* Two cards, one of them with an inline display at load, after three clicks.
C2_Witness ==
  /\ clicks = 3
  /\ Cardinality(LoadCompletedSet) >= 2
  /\ \E c \in LoadCompletedSet : loadDoc.style[c].display = "block"
  /\ \A c \in LoadCompletedSet : style[c].display = "none"

\* ----------------------------------------------------------------------- C3
\* C3: two consecutive clicks leave the display of every completed card and
\* the label as they were before the two clicks, from any state, the state
\* right after load included.
C3_DoubleClickIdentity ==
  \A i \in DOMAIN seen : (i + 2) \in DOMAIN seen => seen[i + 2] = seen[i]

\* ----------------------------------------------------------------------- C4
\* C4: a click changes nothing but the display of the cards captured at load
\* and the label: the tree and the class lists are as before, every other
\* element keeps its whole inline style, a captured card keeps every style
\* property but display, and a card that was not completed at load has, after
\* any number of clicks, the display it had at load.
C4_ClickFrame ==
  [][ LET done == LoadCompletedSet
      IN /\ clicks' # clicks =>
              /\ kids' = kids
              /\ cls' = cls
              /\ \A e \in Elems :
                   IF e \in done
                     THEN style'[e] = [style[e] EXCEPT !.display = style'[e].display]
                     ELSE style'[e] = style[e]
         /\ \A c \in LoadOpenCards : style'[c].display = loadDoc.style[c].display
    ]_vars

\* An open card sits in the task list beside a completed one, hidden by a click.
C4_Witness ==
  /\ clicks >= 1
  /\ hidden
  /\ \E c \in LoadOpenCards :
       /\ LoadList \in AncestorsOrSelf(loadDoc.kids, c)
       /\ style[c].display = ""
  /\ \E d \in LoadCompletedSet : style[d].display = "none"

\* ----------------------------------------------------------------------- C5
Faded(e) ==
  /\ style[e].opacity = FadeOpacity
  /\ style[e].transform = FadeTransform
  /\ style[e].transition = FadeTransition

Unfaded(e) ==
  /\ style[e].opacity = loadDoc.style[e].opacity
  /\ style[e].transform = loadDoc.style[e].transform
  /\ style[e].transition = loadDoc.style[e].transition

InPlace(e) == ParentOf(kids, e) = ParentOf(loadDoc.kids, e)

\* C5: with N >= 1 flash elements at load, nothing is styled or removed before
\* 4000 ms; the fade runs at 4000 ms and styles all N at once; the removal
\* runs 400 ms after the fade, at 4400 ms, and takes all N out at once; no
\* flash element is removed that was not faded, and none is left in the
\* document after the removal.
C5_DismissSequence ==
  LET fl == LoadFlashSet
  IN (pc = "ran" /\ fl # {}) =>
       /\ Range(flashes) = fl
       /\ now < VisibleMs => fadedAt = Null
       /\ now > VisibleMs => fadedAt # Null
       /\ fadedAt # Null => fadedAt = VisibleMs
       /\ IF fadedAt = Null
            THEN removedAt = Null /\ \A f \in fl : Unfaded(f)
            ELSE \A f \in fl : Faded(f)
       /\ now < VisibleMs + RemoveDelayMs => removedAt = Null
       /\ now > VisibleMs + RemoveDelayMs => removedAt # Null
       /\ removedAt # Null => removedAt = fadedAt + RemoveDelayMs
       /\ IF removedAt = Null
            THEN \A f \in fl : InPlace(f) /\ InDoc(kids, f)
            ELSE \A f \in fl :
                   ParentOf(kids, f) = Null /\ ~InDoc(kids, f) /\ Faded(f)

\* Two banners, both gone at 4400 ms.
C5_Witness ==
  /\ Cardinality(LoadFlashSet) >= 2
  /\ removedAt = VisibleMs + RemoveDelayMs
  /\ \A f \in LoadFlashSet : ~InDoc(kids, f)

\* ----------------------------------------------------------------------- C6
\* C6 as stated: with no flash element at load, no timer is scheduled and
\* the document is never mutated: the tree, the class lists and the inline
\* styles of its elements stay as they were at load.
C6_Original ==
  (pc = "ran" /\ LoadFlashSet = {}) =>
     /\ timers = {} /\ scheduled = 0
     /\ kids = loadDoc.kids
     /\ \A n \in Nodes : cls[n] = loadDoc.cls[n] /\ style[n] = loadDoc.style[n]

\* C6 amended: with no flash element at load, no timer is ever scheduled and
\* the flash enhancement mutates nothing: no callback runs, no element is
\* faded or taken out of its parent.  What changes is the toggle's doing
\* alone: the button inserted before the task list and the display of the
\* completed cards.
C6_NoFlashNoTimers ==
  LET done == LoadCompletedSet
  IN (pc = "ran" /\ LoadFlashSet = {}) =>
       /\ flashes = <<>>
       /\ timers = {} /\ scheduled = 0
       /\ fadedAt = Null /\ removedAt = Null
       /\ \A n \in Nodes :
            /\ Unfaded(n) /\ InPlace(n)
            /\ cls[n] = loadDoc.cls[n]
            /\ n \notin done => style[n] = loadDoc.style[n]
       /\ \A p \in Nodes : Without(kids[p], {Btn}) = loadDoc.kids[p]

\* No banner, the toggle inserted and clicked, and the clock past 4400 ms.
C6_Witness ==
  /\ pc = "ran"
  /\ LoadFlashSet = {}
  /\ InDoc(kids, Btn)
  /\ clicks >= 1
  /\ now > VisibleMs + RemoveDelayMs

\* ----------------------------------------------------------------------- C7
AllDismissed ==
  /\ fadedAt # Null
  /\ removedAt # Null
  /\ \A f \in LoadFlashSet : Faded(f) /\ ~InDoc(kids, f)

\* C7: once the dismiss sequence is scheduled (N >= 1), under fair firing of
\* the timers every flash element captured at load is eventually faded and
\* then removed; a click never touches the pending timers, and a scheduled
\* callback leaves the timer set only by running.
C7_DismissCompletes ==
  /\ (pc = "ran" /\ LoadFlashSet # {}) ~> AllDismissed
  /\ [][ /\ clicks' # clicks => timers' = timers
            /\ \A t \in timers :
                 t \notin timers' =>
                   \/ t.cb = "fade" /\ fadedAt = Null /\ fadedAt' # Null
                   \/ t.cb = "remove" /\ removedAt = Null /\ removedAt' # Null
          ]_vars

\* The sequence ran to its end with clicks on the toggle before the fade and
\* between the two callbacks.
C7_Witness ==
  /\ LoadFlashSet # {}
  /\ AllDismissed
  /\ clicks >= 2
  /\ Len(seen) >= 3

\* ----------------------------------------------------------------------- C8
\* C8: whatever the document at load, no callback raises an error, and with
\* no task list no button is created.
C8_NeverAnError ==
  /\ ~error
  /\ (pc = "ran" /\ LoadList = Null) => (~toggle.created /\ ~InDoc(kids, Btn))

\* ----------------------------------------------------------------------- C9
\* C9: when the task list held completed cards at load, there is, after the
\* handler and in every later state, exactly one toggle button in the
\* document, it is the immediate preceding sibling of the task-list container,
\* and before the first click its label is "Hide completed tasks".
C9_OneToggleBeforeList ==
  (pc = "ran" /\ LoadCompletedSet # {}) =>
     /\ Occurrences(kids, Btn) = 1
     /\ InDoc(kids, Btn)
     /\ ParentOf(kids, Btn) = ParentOf(kids, LoadList)
     /\ ImmediatelyBefore(kids[ParentOf(kids, Btn)], Btn, LoadList)
     /\ clicks = 0 => toggle.textContent = HideLabel

TimerStep == fadedAt' # fadedAt \/ removedAt' # removedAt

ClickStep == clicks' # clicks

OrderFree ==
  LET fl      == LoadFlashSet
      done    == LoadCompletedSet
      lst     == LoadList
      created == done # {}
      cont    == IF lst = Null THEN Null ELSE ParentOf(loadDoc.kids, lst)
      faded   == fadedAt # Null
      label   == IF Odd(clicks) THEN ShowLabel ELSE HideLabel
      shown   == IF Odd(clicks) THEN "none" ELSE ""
  IN pc = "ran" =>
       /\ \A p \in Elems :
            LET base == IF created /\ p = cont
                          THEN InsertBefore(loadDoc.kids[p], Btn, lst)
                          ELSE loadDoc.kids[p]
            IN kids[p] = (IF removedAt # Null THEN Without(base, fl) ELSE base)
       /\ \A e \in Elems :
            style[e] =
              [display |-> IF e \in done /\ clicks > 0
                             THEN shown ELSE loadDoc.style[e].display,
               opacity |-> IF e \in fl /\ faded THEN FadeOpacity ELSE "",
               transform |-> IF e \in fl /\ faded THEN FadeTransform ELSE "",
               transition |-> IF e \in fl /\ faded THEN FadeTransition ELSE "",
               marginBottom |-> IF e = Btn /\ created THEN ToggleMargin ELSE ""]
       /\ toggle = (IF created
                      THEN [created |-> TRUE, textContent |-> label,
                            type |-> "button"]
                      ELSE NoToggle)
       /\ hidden = Odd(clicks)
       /\ timers = (IF fl = {} \/ removedAt # Null THEN {}
                    ELSE IF ~faded THEN {[cb |-> "fade", due |-> VisibleMs]}
                    ELSE {[cb |-> "remove", due |-> VisibleMs + RemoveDelayMs]})

\* C11 as stated: a click changes no flash element's style or presence and no
\* pending timer; a timer callback changes neither the toggle state, nor the
\* label, nor the button's presence in the document, nor any card's display;
\* and the state is a function of the click count and the callbacks that ran.
C11_Original ==
  /\ []OrderFree
  /\ [][ /\ ClickStep =>
              /\ timers' = timers
              /\ \A f \in LoadFlashSet :
                   style'[f] = style[f] /\ InDoc(kids', f) = InDoc(kids, f)
         /\ TimerStep =>
              /\ hidden' = hidden
              /\ toggle' = toggle
              /\ InDoc(kids', Btn) = InDoc(kids, Btn)
              /\ \A n \in Nodes : style'[n].display = style[n].display
       ]_vars

\* C11 amended: a click leaves the tree and the pending timers as they are
\* and writes nothing but the display of captured cards, so no flash element
\* loses or gains a fade property or its place; a timer callback changes
\* neither the toggle state, nor the label, nor any element's display, nor
\* the button's parent; the button leaves the document in one case only, when
\* the removal callback removes a flash element that contains the task list;
\* and the state is a function of the document at load, the click count and
\* the callbacks that ran, whatever their order.
C11_Independent ==
  /\ []OrderFree
  /\ [][ /\ ClickStep =>
              /\ timers' = timers
              /\ kids' = kids
              /\ fadedAt' = fadedAt /\ removedAt' = removedAt
              /\ LET fl   == LoadFlashSet
                     done == LoadCompletedSet
                 IN \A f \in fl :
                      /\ style'[f].opacity = style[f].opacity
                      /\ style'[f].transform = style[f].transform
                      /\ style'[f].transition = style[f].transition
                      /\ f \notin done => style'[f] = style[f]
         /\ TimerStep =>
              /\ hidden' = hidden
              /\ toggle' = toggle
              /\ clicks' = clicks
              /\ \A n \in Elems : style'[n].display = style[n].display
              /\ ParentOf(kids', Btn) = ParentOf(kids, Btn)
              /\ InDoc(kids', Btn) # InDoc(kids, Btn) =>
                   /\ removedAt' # removedAt
                   /\ InDoc(kids, Btn)
                   /\ \E f \in LoadFlashSet :
                        f \in AncestorsOrSelf(loadDoc.kids, LoadList)
       ]_vars

\* Clicks and both callbacks have happened on a page with a banner and a
\* working toggle; the clicks can have come before, between or after them.
C11_Witness ==
  /\ LoadFlashSet # {}
  /\ removedAt # Null
  /\ InDoc(kids, Btn)
  /\ clicks = 2
  /\ \A c \in LoadCompletedSet : style[c].display = ""

\* ---------------------------------------------------------------------- C12
FadePending == \E t \in timers : t.cb = "fade"

RemovePending == \E t \in timers : t.cb = "remove"

\* The timers and the count of setTimeout calls at each stage of the page.
TimerLedger ==
  pc = "ran" =>
    /\ scheduled <= 2
    /\ Cardinality(timers) <= 1
    /\ scheduled = (IF LoadFlashSet = {} THEN 0 ELSE IF fadedAt = Null THEN 1 ELSE 2)
    /\ FadePending <=> (LoadFlashSet # {} /\ fadedAt = Null)
    /\ RemovePending <=> (fadedAt # Null /\ removedAt = Null)
    /\ removedAt # Null => (fadedAt # Null /\ timers = {})

\* C12: at most two timers are scheduled over the life of the page, whatever
\* the number of flash elements and of clicks: the fade timer once, by the
\* handler; the removal timer once, by the fade callback and so never before
\* the fade has run; each callback runs once, taking its own timer off the
\* pending set; after the removal callback nothing is pending.
C12_TwoTimers ==
  /\ []TimerLedger
  /\ [][ /\ scheduled' >= scheduled
         /\ scheduled' # scheduled =>
              /\ scheduled' = scheduled + 1
              /\ \/ pc = "parsed" /\ pc' = "ran" /\ FadePending'
                 \/ fadedAt = Null /\ fadedAt' # Null /\ RemovePending'
         /\ fadedAt' # fadedAt => (fadedAt = Null /\ FadePending /\ ~FadePending')
         /\ removedAt' # removedAt =>
              (removedAt = Null /\ RemovePending /\ ~RemovePending' /\ timers' = {})
         /\ ClickStep => (scheduled' = scheduled /\ timers' = timers)
       ]_vars

\* A banner, three clicks, both callbacks run: two timers in all, none left.
C12_Witness ==
  /\ LoadFlashSet # {}
  /\ clicks >= 3
  /\ removedAt # Null
  /\ scheduled = 2
  /\ timers = {}

====
